---- MODULE Spec2Model ----
(***************************************************************************)
(* Model of get_financial_statements of "stock_analyzer(streamlit).py":    *)
(* the per-year fallback search over (fs_div, reprt_code) combinations     *)
(* against the DART fnlttSinglAcntAll endpoint.                            *)
(* Further sections model the script run of main() with its session       *)
(* state, the chart data built from the statements, and                    *)
(* get_financial_statements of stock_analyzer.py.                          *)
(*                                                                         *)
(* Text values (account names, amounts, dict keys) are tuples of           *)
(* one-character strings, so that str(), str.strip() and str.replace()     *)
(* are computed rather than assumed.                                       *)
(***************************************************************************)
EXTENDS Integers, Sequences, FiniteSets, TLC

VARIABLES
    DART_API_KEY,     \* module-level credential ("" when not configured)
    corp_code,        \* argument corp_code ("" when the lookup found none)
    reprt_overrides,  \* argument: function year -> report code (empty = None / {})
    fs_mode,          \* argument fs_mode
    open_year,        \* Disclosure Source: the year whose answers are unconstrained
    uniform,          \* Disclosure Source: its answer for every other year
    fixed,            \* Disclosure Source: the answers settled beforehand, a function
                      \* from <<year, fs_div, reprt_code>> to the response
    pc,               \* "start", "running", "returned" or "raised"
    year,             \* loop variable of the year loop
    fs_div_i,         \* position of the fs_div loop in fs_div_order (1-based)
    reprt_i,          \* position of the reprt_code loop in reprt_codes (1-based)
    res,              \* outcome of the last requests.get(...).json()
    fs_data,          \* the dict being built, as a sequence of [key, df] in insertion order
    calls,            \* every request sent so far, in order: its parameters, whether the
                      \* answer was Usable, and what the loop body then did
    past,             \* the calls of get_financial_statements that are over, in order
    session,          \* st.session_state: a function from the keys present to their values
    ui,               \* the widget values of the current script run
    run               \* what the current script run did

vars == <<DART_API_KEY, corp_code, reprt_overrides, fs_mode, open_year, uniform, fixed,
          pc, year, fs_div_i, reprt_i, res, fs_data, calls, past, session, ui, run>>

----------------------------------------------------------------------------
(* Python text operations *)

Whitespace == {" "}

DigitChars == <<"0", "1", "2", "3", "4", "5", "6", "7", "8", "9">>

RECURSIVE Str(_)
\* str(n) for a non-negative integer: its decimal digits
Str(n) == IF n < 10 THEN <<DigitChars[n + 1]>>
          ELSE Append(Str(n \div 10), DigitChars[(n % 10) + 1])

RECURSIVE LStrip(_)
LStrip(s) == IF s # <<>> /\ Head(s) \in Whitespace THEN LStrip(Tail(s)) ELSE s

RECURSIVE RStrip(_)
RStrip(s) == IF s # <<>> /\ s[Len(s)] \in Whitespace
             THEN RStrip(SubSeq(s, 1, Len(s) - 1)) ELSE s

\* str.strip()
Strip(s) == RStrip(LStrip(s))

\* str.replace(",", "")
RemoveCommas(s) == SelectSeq(s, LAMBDA c : c # ",")

\* astype(str) of a cell the row did not carry (NaN)
NaN == <<"n", "a", "n">>

----------------------------------------------------------------------------
(* Request parameters *)

\* END_DATE.year, the calendar year in which the program runs
current_year == 2024

\* range(current_year - 5, current_year + 1)
YearsBack == 5

Years == (current_year - YearsBack) .. current_year

Codes == {"11011", "11012", "11013", "11014"}

Modes == {"AUTO_CFS_OFS", "AUTO_OFS_CFS", "CFS_ONLY", "OFS_ONLY"}

fs_div_order ==
    IF fs_mode = "CFS_ONLY" THEN <<"CFS">>
    ELSE IF fs_mode = "OFS_ONLY" THEN <<"OFS">>
    ELSE IF fs_mode = "AUTO_OFS_CFS" THEN <<"OFS", "CFS">>
    ELSE <<"CFS", "OFS">>

\* the override is tried first, then the default order all the same
reprt_codes_OverrideFirst(y) ==
    IF y \in DOMAIN reprt_overrides
    THEN <<reprt_overrides[y], "11011", "11012", "11013", "11014">>
    ELSE IF y < current_year
         THEN <<"11011", "11012", "11013", "11014">>
         ELSE <<"11014", "11013", "11012", "11011">>

\* year < current_year - 1: the year before the current one is taken for current
reprt_codes_PastOffByOne(y) ==
    IF y \in DOMAIN reprt_overrides
    THEN <<reprt_overrides[y]>>
    ELSE IF y < current_year - 1
         THEN <<"11011", "11012", "11013", "11014">>
         ELSE <<"11014", "11013", "11012", "11011">>

\* year <= current_year: the current year is taken for a past one
reprt_codes_CurrentAsPast(y) ==
    IF y \in DOMAIN reprt_overrides
    THEN <<reprt_overrides[y]>>
    ELSE IF y <= current_year
         THEN <<"11011", "11012", "11013", "11014">>
         ELSE <<"11014", "11013", "11012", "11011">>

reprt_codes(y) ==
    IF y \in DOMAIN reprt_overrides
    THEN <<reprt_overrides[y]>>
    ELSE IF y < current_year
         THEN <<"11011", "11012", "11013", "11014">>
         ELSE <<"11014", "11013", "11012", "11011">>

----------------------------------------------------------------------------
(* Responses of the Disclosure Source *)

\* requests.get(...).json() raised (network failure, timeout, body not JSON)
RequestException == [exc |-> TRUE, status |-> "", islist |-> FALSE, list |-> <<>>]

\* a JSON object; islist is isinstance(res.get("list"), list)
Json(st, rows) == [exc |-> FALSE, status |-> st, islist |-> TRUE, list |-> rows]

JsonNoList(st) == [exc |-> FALSE, status |-> st, islist |-> FALSE, list |-> <<>>]

\* value of res before the first request
NoResponse == JsonNoList("")

RowBoth1  == [account_nm |-> <<" ", "A", " ">>, thstrm_amount |-> <<" ", "1", ",", "2", " ">>,
              ord |-> <<"1">>]
RowBoth2  == [account_nm |-> <<"A">>, thstrm_amount |-> <<"3">>]
RowBoth3  == [account_nm |-> <<"B", " ">>, thstrm_amount |-> <<",", " ", "4", ",">>]
RowNm     == [account_nm |-> <<"A", " ">>]
RowAmt    == [thstrm_amount |-> <<"1", ",", "2">>]
RowOther  == [ord |-> <<"1">>]

Responses == {
    RequestException,
    JsonNoList("013"),                       \* "no data" status, no list
    JsonNoList("000"),                       \* success status, list absent
    Json("000", <<>>),                       \* success status, empty list
    Json("013", <<RowBoth2>>),               \* rows under a failure status
    Json("000", <<RowOther>>),               \* rows carrying neither field
    Json("000", <<RowNm>>),                  \* rows carrying account_nm only
    Json("000", <<RowAmt, RowAmt>>),         \* rows carrying thstrm_amount only
    Json("000", <<RowNm, RowAmt>>),          \* both fields occur, never in one row
    Json("000", <<RowBoth1, RowBoth2>>),     \* two rows with the same account name
    Json("000", <<RowBoth3, RowNm>>) }       \* one complete row, one partial row

UniformResponses == {
    RequestException, JsonNoList("013"), Json("000", <<RowNm>>),
    Json("000", <<RowBoth1, RowBoth2>>) }

\* every response the source has
Answers == Responses \cup {uniform} \cup {fixed[k] : k \in DOMAIN fixed}

\* what the source may answer to a request for year y, scope s and report code c
Source(y, s, c) ==
    IF <<y, s, c>> \in DOMAIN fixed THEN {fixed[<<y, s, c>>]}
    ELSE IF y = open_year THEN Responses
    ELSE {uniform}

\* the response has a row carrying both an account name and an amount
Usable(r) ==
    /\ ~r.exc
    /\ r.status = "000"
    /\ r.islist
    /\ \E k \in 1 .. Len(r.list) :
          {"account_nm", "thstrm_amount"} \subseteq DOMAIN r.list[k]

----------------------------------------------------------------------------
(* pandas *)

keep_cols == <<"account_nm", "thstrm_amount">>

\* columns of pd.DataFrame(list of dicts): every key some row carries
Columns(list) == UNION {DOMAIN list[k] : k \in 1 .. Len(list)}

\* cols = [c for c in keep_cols if c in df.columns]
cols(list) == SelectSeq(keep_cols, LAMBDA c : c \in Columns(list))

Cell(row, c) == IF c \in DOMAIN row THEN row[c] ELSE NaN

\* .str.strip().str.replace(",", ""): trimmed first, the commas removed after
NormalizeAmount_StripFirst(s) == RemoveCommas(Strip(s))

\* line 197 (and line 536 of to_trillion): .str.replace(",", "").str.strip()
NormalizeAmount(s) == Strip(RemoveCommas(s))

\* drop_duplicates(subset="account_nm") after the normalisation: the first row of
\* every account name only
Normalized_DropDuplicates(list) ==
    LET all == [k \in 1 .. Len(list) |->
                  [account_nm    |-> Strip(Cell(list[k], "account_nm")),
                   thstrm_amount |-> NormalizeAmount(Cell(list[k], "thstrm_amount")),
                   first         |-> \A j \in 1 .. (k - 1) :
                                        Strip(Cell(list[j], "account_nm"))
                                            # Strip(Cell(list[k], "account_nm"))]]
        kept == SelectSeq(all, LAMBDA row : row.first)
    IN  [columns |-> keep_cols,
         rows    |-> [k \in 1 .. Len(kept) |->
                        [account_nm    |-> kept[k].account_nm,
                         thstrm_amount |-> kept[k].thstrm_amount]]]

\* dropna() after the selection: rows lacking one of the two fields are left out
Normalized_DropIncomplete(list) ==
    LET kept == SelectSeq(list, LAMBDA row : {"account_nm", "thstrm_amount"} \subseteq DOMAIN row)
    IN  [columns |-> keep_cols,
         rows    |-> [k \in 1 .. Len(kept) |->
                        [account_nm    |-> Strip(kept[k].account_nm),
                         thstrm_amount |-> NormalizeAmount(kept[k].thstrm_amount)]]]

\* lines 195-197: df[cols] with both columns normalised
Normalized(list) ==
    [columns |-> keep_cols,
     rows    |-> [k \in 1 .. Len(list) |->
                    [account_nm    |-> Strip(Cell(list[k], "account_nm")),
                     thstrm_amount |-> NormalizeAmount(Cell(list[k], "thstrm_amount"))]]]

\* pd.DataFrame({"account_nm": [], "thstrm_amount": []})
EmptyFrame == [columns |-> keep_cols, rows |-> <<>>]

\* the key of the placeholder entry (the four Hangul syllables of line 146, romanised)
MessageKey == <<"jae", "mu", "je", "pyo">>

\* the one-column, one-row placeholder table of line 146 (column and text romanised)
MessageFrame ==
    [columns |-> <<"mesiji">>,
     rows    |-> <<[mesiji |-> <<"deiteo eopseum (no API key or no corp_code)">>]>>]

\* d[k] = v on an insertion-ordered dict
DictSet(d, k, v) ==
    IF \E i \in 1 .. Len(d) : d[i].key = k
    THEN [i \in 1 .. Len(d) |-> IF d[i].key = k THEN [key |-> k, df |-> v] ELSE d[i]]
    ELSE Append(d, [key |-> k, df |-> v])

----------------------------------------------------------------------------
(* get_financial_statements *)

Init ==
    /\ DART_API_KEY \in {"", "KEY"}
    /\ corp_code \in {"", "00126380"}
    /\ fs_mode \in Modes
    /\ open_year \in Years
    /\ uniform \in UniformResponses
    /\ reprt_overrides \in
          {[y \in {} |-> "11011"]}
          \cup {[y \in {open_year} |-> c] : c \in Codes}
          \cup {[y \in Years |-> "11011"]}
    /\ pc = "start"
    /\ year = current_year - YearsBack
    /\ fs_div_i = 1
    /\ reprt_i = 1
    /\ fixed = <<>>
    /\ res = NoResponse
    /\ fs_data = <<>>
    /\ calls = <<>>
    /\ past = <<>>
    /\ session = <<>>
    /\ ui = <<>>
    /\ run = <<>>

inputs == <<DART_API_KEY, corp_code, reprt_overrides, fs_mode, open_year, uniform, fixed>>

\* what a call of get_financial_statements does not touch
outside == <<past, session, ui, run>>

\* `and` in place of `or`
MissingCredentials_Both == DART_API_KEY = "" /\ corp_code = ""

\* line 145: not DART_API_KEY or not corp_code
MissingCredentials == DART_API_KEY = "" \/ corp_code = ""

\* lines 145-147
ReturnNoCredentials ==
    /\ pc = "start"
    /\ MissingCredentials
    /\ fs_data' = DictSet(fs_data, MessageKey, MessageFrame)
    /\ pc' = "returned"
    /\ UNCHANGED <<inputs, outside, year, fs_div_i, reprt_i, res, calls>>

\* lines 149-159 and the entry of the year loop
Begin ==
    /\ pc = "start"
    /\ ~MissingCredentials
    /\ pc' = "running"
    /\ year' = current_year - YearsBack
    /\ fs_div_i' = 1
    /\ reprt_i' = 1
    /\ UNCHANGED <<inputs, outside, res, fs_data, calls>>

\* lines 205-208: try_one_year(year) is over with df; store it, next year or return
YearDone(df) ==
    /\ fs_data' = DictSet(fs_data, Str(year), df)
    /\ fs_div_i' = 1
    /\ reprt_i' = 1
    /\ IF year < current_year
       THEN year' = year + 1 /\ pc' = pc
       ELSE year' = year /\ pc' = "returned"

\* the two loops nested the other way round: fs_div inner, reprt_code outer
NextCombination_ScopeInner ==
    IF fs_div_i < Len(fs_div_order)
    THEN /\ fs_div_i' = fs_div_i + 1
         /\ UNCHANGED <<reprt_i, year, pc, fs_data>>
    ELSE IF reprt_i < Len(reprt_codes(year))
         THEN /\ reprt_i' = reprt_i + 1
              /\ fs_div_i' = 1
              /\ UNCHANGED <<year, pc, fs_data>>
         ELSE YearDone(EmptyFrame)

\* `continue` or the end of the loop body: the next reprt_code, the next fs_div,
\* or `return None`
NextCombination ==
    IF reprt_i < Len(reprt_codes(year))
    THEN /\ reprt_i' = reprt_i + 1
         /\ UNCHANGED <<fs_div_i, year, pc, fs_data>>
    ELSE IF fs_div_i < Len(fs_div_order)
         THEN /\ fs_div_i' = fs_div_i + 1
              /\ reprt_i' = 1
              /\ UNCHANGED <<year, pc, fs_data>>
         ELSE YearDone(EmptyFrame)

\* lines 172-184: one request for the current combination, answered by r; did is
\* what the rest of the loop body does: "continue", "raise" or "return"
Request(r, did) ==
    /\ pc = "running"
    /\ r \in Source(year, fs_div_order[fs_div_i], reprt_codes(year)[reprt_i])
    /\ res' = r
    /\ calls' = Append(calls, [year       |-> year,
                               fs_div     |-> fs_div_order[fs_div_i],
                               reprt_code |-> reprt_codes(year)[reprt_i],
                               usable     |-> Usable(r),
                               outcome    |-> did])
    /\ UNCHANGED <<inputs, outside>>

\* line 189
Accepted(r) == r.status = "000" /\ r.islist /\ Len(r.list) > 0

\* no try/except around the request: the exception leaves the function
RequestFailed_Propagates ==
    \E r \in Answers :
        /\ r.exc
        /\ Request(r, "raise")
        /\ pc' = "raised"
        /\ UNCHANGED <<year, fs_div_i, reprt_i, fs_data>>

\* `return None` in place of `continue`: a failed request gives the year up
RequestFailed_AbortsYear ==
    \E r \in Answers :
        /\ r.exc
        /\ Request(r, "continue")
        /\ YearDone(EmptyFrame)

\* a failed request is sent once more before the search moves on
RequestFailed_RetryOnce ==
    \E r \in Answers :
        /\ r.exc
        /\ Request(r, "continue")
        /\ IF calls # <<>>
              /\ calls[Len(calls)].year = year
              /\ calls[Len(calls)].fs_div = fs_div_order[fs_div_i]
              /\ calls[Len(calls)].reprt_code = reprt_codes(year)[reprt_i]
           THEN NextCombination
           ELSE UNCHANGED <<year, fs_div_i, reprt_i, pc, fs_data>>

\* lines 185-187
RequestFailed ==
    \E r \in Answers :
        /\ r.exc
        /\ Request(r, "continue")
        /\ NextCombination

\* lines 200-202
NotAccepted ==
    \E r \in Answers :
        /\ ~r.exc
        /\ ~Accepted(r)
        /\ Request(r, "continue")
        /\ NextCombination

\* lines 190-194
NoKeepCols ==
    \E r \in Answers :
        /\ ~r.exc
        /\ Accepted(r)
        /\ cols(r.list) = <<>>
        /\ Request(r, "continue")
        /\ NextCombination

\* lines 195-197 with one of the two columns missing from df: KeyError
ColumnKeyError ==
    \E r \in Answers :
        /\ ~r.exc
        /\ Accepted(r)
        /\ cols(r.list) # <<>>
        /\ cols(r.list) # keep_cols
        /\ Request(r, "raise")
        /\ pc' = "raised"
        /\ UNCHANGED <<year, fs_div_i, reprt_i, fs_data>>

\* `break` in place of `return df`: the adopted frame is kept, the next fs_div is tried
Adopt_BreakInner ==
    \E r \in Answers :
        /\ ~r.exc
        /\ Accepted(r)
        /\ cols(r.list) = keep_cols
        /\ Request(r, "return")
        /\ IF fs_div_i < Len(fs_div_order)
           THEN /\ fs_div_i' = fs_div_i + 1
                /\ reprt_i' = 1
                /\ fs_data' = DictSet(fs_data, Str(year), Normalized(r.list))
                /\ UNCHANGED <<year, pc>>
           ELSE YearDone(Normalized(r.list))

\* lines 195-199 and 206-207
Adopt ==
    \E r \in Answers :
        /\ ~r.exc
        /\ Accepted(r)
        /\ cols(r.list) = keep_cols
        /\ Request(r, "return")
        /\ YearDone(Normalized(r.list))

Next ==
    \/ ReturnNoCredentials
    \/ Begin
    \/ RequestFailed
    \/ NotAccepted
    \/ NoKeepCols
    \/ ColumnKeyError
    \/ Adopt

Spec == Init /\ [][Next]_vars

----------------------------------------------------------------------------
(* Reading the state *)

HasKey(d, k) == \E i \in 1 .. Len(d) : d[i].key = k

Get(d, k) == d[CHOOSE i \in 1 .. Len(d) : d[i].key = k].df

\* the requests sent for year y, in the order they were sent
CallsOf(y) == SelectSeq(calls, LAMBDA e : e.year = y)

\* the requests sent for year y under scope s, in the order they were sent
CallsIn(y, s) == SelectSeq(calls, LAMBDA e : e.year = y /\ e.fs_div = s)

ReprtCodesOf(cs) == [k \in 1 .. Len(cs) |-> cs[k].reprt_code]

IsPrefix(p, q) == Len(p) <= Len(q) /\ \A k \in 1 .. Len(p) : p[k] = q[k]

AllContinued(cs) == \A k \in 1 .. Len(cs) : cs[k].outcome = "continue"

\* the search of scope s for year y is over and adopted nothing
ScopeExhausted(y, s) ==
    /\ CallsIn(y, s) # <<>>
    /\ AllContinued(CallsIn(y, s))
    /\ \/ HasKey(fs_data, Str(y))
       \/ \E k \in 1 .. Len(calls) : calls[k].year = y /\ calls[k].fs_div # s
                                     /\ \E j \in 1 .. (k - 1) : calls[j].year = y /\ calls[j].fs_div = s

----------------------------------------------------------------------------
(* C1 *)

\* C1: for every year the response adopted is that of the earliest combination
\* whose response has a row carrying both an account name and an amount (every
\* such response is adopted on arrival, so no earlier one was passed over), and a
\* response in which either field is missing is never adopted and only makes
\* the search go on to the next combination.
C1_AdoptsEarliestUsable ==
    \A k \in 1 .. Len(calls) :
        /\ calls[k].usable => calls[k].outcome = "return"
        /\ ~calls[k].usable => calls[k].outcome = "continue"
        /\ calls[k].outcome = "return" =>
              \A j \in 1 .. (k - 1) : calls[j].year = calls[k].year => ~calls[j].usable

----------------------------------------------------------------------------
(* C2 *)

\* C2: for every year at most one request is adopted, and the adopting request
\* is the last request carrying that year: none for the same year follows it.
C2_AdoptingFetchIsLast ==
    /\ \A k \in 1 .. Len(calls) :
          calls[k].outcome = "return" =>
              \A j \in (k + 1) .. Len(calls) : calls[j].year # calls[k].year
    /\ \A y \in Years :
          Cardinality({k \in 1 .. Len(calls) :
                          calls[k].year = y /\ calls[k].outcome = "return"}) <= 1

\* a call that returned after a year was adopted on its third request, with five
\* combinations of that year left untried and requests for later years following
C2_Witness ==
    /\ pc = "returned"
    /\ \E k \in 3 .. Len(calls) :
          /\ calls[k].outcome = "return"
          /\ calls[k].year < current_year
          /\ calls[k].year \notin DOMAIN reprt_overrides
          /\ Len(fs_div_order) = 2
          /\ Len(CallsOf(calls[k].year)) = 3
          /\ k < Len(calls)

----------------------------------------------------------------------------
(* C3 *)

----------------------------------------------------------------------------
(* C4, C5 *)

\* C4: for a year below the current year with no override, the report types
\* requested within one scope follow the order 11011, 11012, 11013, 11014, and
\* are exactly these four when the scope is exhausted without an adoption.
C4_PastYearOrder ==
    \A y \in Years : \A s \in {"CFS", "OFS"} :
        (y < current_year /\ y \notin DOMAIN reprt_overrides) =>
            /\ IsPrefix(ReprtCodesOf(CallsIn(y, s)), <<"11011", "11012", "11013", "11014">>)
            /\ ScopeExhausted(y, s) =>
                  ReprtCodesOf(CallsIn(y, s)) = <<"11011", "11012", "11013", "11014">>

\* the year before the current one, no override, OFS tried first and exhausted
C4_Witness ==
    /\ (current_year - 1) \notin DOMAIN reprt_overrides
    /\ fs_mode = "AUTO_OFS_CFS"
    /\ ScopeExhausted(current_year - 1, "OFS")
    /\ Len(CallsIn(current_year - 1, "OFS")) = 4
    /\ Len(CallsIn(current_year - 1, "CFS")) >= 1

\* C5: for the current year with no override, the report types requested within
\* one scope follow the order 11014, 11013, 11012, 11011, and are exactly these
\* four when the scope is exhausted without an adoption.
C5_CurrentYearOrder ==
    \A s \in {"CFS", "OFS"} :
        current_year \notin DOMAIN reprt_overrides =>
            /\ IsPrefix(ReprtCodesOf(CallsIn(current_year, s)),
                        <<"11014", "11013", "11012", "11011">>)
            /\ ScopeExhausted(current_year, s) =>
                  ReprtCodesOf(CallsIn(current_year, s)) = <<"11014", "11013", "11012", "11011">>

\* the current year, no override, CFS exhausted and the call returned
C5_Witness ==
    /\ current_year \notin DOMAIN reprt_overrides
    /\ pc = "returned"
    /\ ScopeExhausted(current_year, "CFS")
    /\ Len(CallsIn(current_year, "CFS")) = 4

----------------------------------------------------------------------------
(* C6 *)

\* the report types that may be requested for year y
Candidates(y) == IF y \in DOMAIN reprt_overrides THEN {reprt_overrides[y]} ELSE Codes

\* C6: under a two-scope order s1 -> s2, for every year each request with scope
\* s1 precedes each request with scope s2, and a request with scope s2 is sent
\* only after every candidate report type was requested under s1 and none was
\* adopted; under CFS_ONLY / OFS_ONLY the other scope is never requested.
C6_ScopeOuterLoop ==
    \A y \in Years :
        LET cs == CallsOf(y) IN
        /\ fs_mode = "CFS_ONLY" => \A k \in 1 .. Len(cs) : cs[k].fs_div = "CFS"
        /\ fs_mode = "OFS_ONLY" => \A k \in 1 .. Len(cs) : cs[k].fs_div = "OFS"
        /\ \A s1, s2 \in {"CFS", "OFS"} :
              (/\ s1 # s2
               /\ \/ fs_mode = "AUTO_CFS_OFS" /\ s1 = "CFS"
                  \/ fs_mode = "AUTO_OFS_CFS" /\ s1 = "OFS") =>
                  /\ \A j, k \in 1 .. Len(cs) :
                        (cs[j].fs_div = s1 /\ cs[k].fs_div = s2) => j < k
                  /\ (\E k \in 1 .. Len(cs) : cs[k].fs_div = s2) =>
                        /\ {cs[k].reprt_code : k \in {i \in 1 .. Len(cs) : cs[i].fs_div = s1}}
                              = Candidates(y)
                        /\ AllContinued(CallsIn(y, s1))

\* OFS -> CFS, a year without override: four OFS requests, then CFS adopted on
\* its second request
C6_Witness ==
    /\ fs_mode = "AUTO_OFS_CFS"
    /\ open_year \notin DOMAIN reprt_overrides
    /\ Len(CallsIn(open_year, "OFS")) = 4
    /\ Len(CallsIn(open_year, "CFS")) = 2
    /\ CallsOf(open_year)[6].outcome = "return"

----------------------------------------------------------------------------
(* C7 *)

\* a failure, empty or error answer: the request raised, the status is not the
\* success status, or there is no list or no row in it
FailureEmptyOrError(r) == r.exc \/ r.status # "000" \/ ~r.islist \/ r.list = <<>>

\* C7: a failure, empty or error response never makes the call raise (so under
\* any mix of such responses the call does not raise), a call that has neither
\* returned nor raised can always take its next step, and every year that is
\* over with none of its requests adopted has the zero-row statement table.
C7_FailuresNeverRaise ==
    /\ pc = "raised" => ~FailureEmptyOrError(res)
    /\ pc \in {"start", "running"} => ENABLED Next
    /\ \A y \in Years :
          (HasKey(fs_data, Str(y)) /\ AllContinued(CallsOf(y))) =>
              Get(fs_data, Str(y)) =
                  [columns |-> <<"account_nm", "thstrm_amount">>, rows |-> <<>>]

\* every combination of every year was requested (48 requests), "no data" for the
\* past years, the last answer an error: the call returned six empty tables
C7_Witness ==
    /\ pc = "returned"
    /\ DART_API_KEY # "" /\ corp_code # ""
    /\ uniform = JsonNoList("013")
    /\ open_year = current_year
    /\ res.exc
    /\ Len(calls) = 48
    /\ \A y \in Years : HasKey(fs_data, Str(y)) /\ Get(fs_data, Str(y)).rows = <<>>

----------------------------------------------------------------------------
(* C8 *)

\* the combinations requested so far
Requested == {<<calls[k].year, calls[k].fs_div, calls[k].reprt_code>> : k \in 1 .. Len(calls)}

\* C8: a request that fails with an exception is swallowed: the call does not
\* raise, and it either goes on to a combination not requested before, of the
\* same year, or of the next year when every combination of the year was
\* requested, or returns when that was the last combination of the last year.
C8_TransientErrorSwallowed ==
    [][(calls' # calls /\ res'.exc) =>
          /\ pc' # "raised"
          /\ LET all == Len(fs_div_order) * Len(reprt_codes(year)) IN
             \/ /\ pc' = "returned"
                /\ year = current_year
                /\ Len(SelectSeq(calls', LAMBDA e : e.year = year)) = all
             \/ /\ pc' = "running"
                /\ <<year', fs_div_order[fs_div_i'], reprt_codes(year')[reprt_i']>> \notin Requested'
                /\ \/ year' = year /\ fs_data' = fs_data
                   \/ year' = year + 1 /\ Len(SelectSeq(calls', LAMBDA e : e.year = year)) = all]_vars

\* the first request of a year failed with an exception and the search stands at
\* the second report type of the same scope
C8_Witness ==
    /\ pc = "running"
    /\ res.exc
    /\ year = open_year
    /\ Len(CallsOf(year)) = 1
    /\ fs_div_i = 1
    /\ reprt_i = 2

----------------------------------------------------------------------------
(* C9 *)

\* C9 as stated: with the API key or the company code missing no request is
\* sent and the call returns an empty table for every year of the range.
C9_NoFetchEmptyEveryYear ==
    (DART_API_KEY = "" \/ corp_code = "") =>
        /\ calls = <<>>
        /\ pc = "returned" =>
              \A y \in Years : HasKey(fs_data, Str(y)) /\ Get(fs_data, Str(y)).rows = <<>>

\* C9 amended: with the API key or the company code missing no request is sent
\* and the call returns a single placeholder entry, a one-column one-row message
\* table under a key that is no year, with no entry for any year.
C9_NoFetchPlaceholder ==
    (DART_API_KEY = "" \/ corp_code = "") =>
        /\ calls = <<>>
        /\ pc \in {"start", "returned"}
        /\ pc = "returned" =>
              /\ Len(fs_data) = 1
              /\ \A y \in Years : ~HasKey(fs_data, Str(y))
              /\ Len(fs_data[1].df.columns) = 1
              /\ fs_data[1].df.columns[1] \notin {"account_nm", "thstrm_amount"}
              /\ Len(fs_data[1].df.rows) = 1

\* the key is set, the company code is not, and the call has returned
C9_Witness ==
    /\ DART_API_KEY # ""
    /\ corp_code = ""
    /\ pc = "returned"

----------------------------------------------------------------------------
(* C10 *)

\* C10: with API key and company code present the call returns, whatever the
\* source answers, exactly one result per year current_year-5 .. current_year,
\* in ascending year order.
C10_OneResultPerYear ==
    (DART_API_KEY # "" /\ corp_code # "") =>
        /\ pc # "raised"
        /\ pc = "returned" =>
              /\ Len(fs_data) = 6
              /\ \A k \in 1 .. 6 : fs_data[k].key = Str(current_year - 6 + k)

\* C10 restricted to the calls that return: a call that returns has returned the
\* six years in ascending order
C10_ReturnedHasSixYears ==
    (pc = "returned" /\ DART_API_KEY # "" /\ corp_code # "") =>
        /\ Len(fs_data) = 6
        /\ \A k \in 1 .. 6 : fs_data[k].key = Str(current_year - 6 + k)

----------------------------------------------------------------------------
(* Rows of the adopted table *)

\* the entries of fs_data stored under a year
YearEntries == {i \in 1 .. Len(fs_data) : \E y \in Years : fs_data[i].key = Str(y)}

\* a text value: a sequence of characters
IsText(v) == /\ DOMAIN v = 1 .. Len(v)
             /\ \A k \in 1 .. Len(v) : v[k] \in STRING

Trimmed(v) == v = <<>> \/ (v[1] \notin Whitespace /\ v[Len(v)] \notin Whitespace)

\* C12: in every table stored under a year, each row's account name is text
\* without leading or trailing whitespace, and each row's amount is text without
\* a comma and without leading or trailing whitespace.
C12_AdoptedRowsNormalised ==
    \A i \in YearEntries :
        \A k \in 1 .. Len(fs_data[i].df.rows) :
            LET row == fs_data[i].df.rows[k]
            IN  /\ IsText(row.account_nm)
                /\ Trimmed(row.account_nm)
                /\ IsText(row.thstrm_amount)
                /\ Trimmed(row.thstrm_amount)
                /\ \A j \in 1 .. Len(row.thstrm_amount) : row.thstrm_amount[j] # ","

\* a response whose amount reads ", 4," and whose account name reads "B " was
\* adopted: the stored row reads "B" and "4"
C12_Witness ==
    /\ calls # <<>>
    /\ calls[Len(calls)].outcome = "return"
    /\ res = Json("000", <<RowBoth3, RowNm>>)
    /\ \E i \in YearEntries :
          /\ fs_data[i].key = Str(calls[Len(calls)].year)
          /\ fs_data[i].df.rows[1] = [account_nm |-> <<"B">>, thstrm_amount |-> <<"4">>]

----------------------------------------------------------------------------
(* Amount normalisation over every short amount text *)

\* longest amount text the source sends
MaxAmountLen == 3

AmountChars == {" ", ",", "1"}

AmountStrings == UNION {[1 .. n -> AmountChars] : n \in 0 .. MaxAmountLen}

\* a one-row list whose amount reads s
AmountRows(s) == <<[account_nm |-> <<"A">>, thstrm_amount |-> s]>>

\* the source answers every year before the current one with one row of an
\* arbitrary amount text; the current year is unconstrained
InitNorm ==
    /\ DART_API_KEY \in {"", "KEY"}
    /\ corp_code = "00126380"
    /\ fs_mode = "AUTO_CFS_OFS"
    /\ open_year = current_year
    /\ uniform \in {Json("000", AmountRows(s)) : s \in AmountStrings}
    /\ fixed = <<>>
    /\ reprt_overrides = <<>>
    /\ pc = "start"
    /\ year = current_year - YearsBack
    /\ fs_div_i = 1
    /\ reprt_i = 1
    /\ res = NoResponse
    /\ fs_data = <<>>
    /\ calls = <<>>
    /\ past = <<>>
    /\ session = <<>>
    /\ ui = <<>>
    /\ run = <<>>

SpecNorm == InitNorm /\ [][Next]_vars

\* C13: normalising an amount a second time changes nothing: every stored amount,
\* itself the normalisation of what the source sent, is its own normalisation.
C13_NormalizeAmountIdempotent ==
    \A i \in YearEntries :
        \A k \in 1 .. Len(fs_data[i].df.rows) :
            NormalizeAmount(fs_data[i].df.rows[k].thstrm_amount)
                = fs_data[i].df.rows[k].thstrm_amount

\* an amount that the normalisation changed (a comma or an outer blank went) and
\* did not empty has been stored
C13_Witness ==
    /\ uniform.list[1].thstrm_amount \in {<<",", " ", "1">>, <<" ", "1", ",">>}
    /\ \E i \in YearEntries :
          /\ fs_data[i].key = Str(current_year - 1)
          /\ fs_data[i].df.rows = <<[account_nm |-> <<"A">>, thstrm_amount |-> <<"1">>]>>

----------------------------------------------------------------------------
(* One request per combination; rows passed through *)

\* C16: within one call no (year, fs_div, reprt_code) combination is requested
\* twice.
C16_EachCombinationOnce ==
    \A i, j \in 1 .. Len(calls) :
        (/\ calls[i].year = calls[j].year
         /\ calls[i].fs_div = calls[j].fs_div
         /\ calls[i].reprt_code = calls[j].reprt_code) => i = j

\* a request failed with an exception and the call went on to return
C16_Witness ==
    /\ pc = "returned"
    /\ \E i \in 1 .. Len(calls) :
          /\ calls[i].year = open_year
          /\ ~calls[i].usable
          /\ \E j \in (i + 1) .. Len(calls) : calls[j].year = open_year
    /\ uniform = RequestException

\* the characters of a text other than blanks and commas
Letters(v) == SelectSeq(v, LAMBDA c : c \notin Whitespace /\ c # ",")

\* C19: the table stored by an adopting request has one row per row of the
\* adopted response, in the response's order: row k of the table carries the
\* account name and the amount of row k of the list (up to blanks and commas).
C19_RowsPassedThrough ==
    (calls # <<>> /\ calls[Len(calls)].outcome = "return") =>
        LET df == Get(fs_data, Str(calls[Len(calls)].year))
        IN  /\ Len(df.rows) = Len(res.list)
            /\ \A k \in 1 .. Len(res.list) :
                  /\ Letters(df.rows[k].account_nm)
                        = Letters(Cell(res.list[k], "account_nm"))
                  /\ Letters(df.rows[k].thstrm_amount)
                        = Letters(Cell(res.list[k], "thstrm_amount"))

\* a response with two rows of the same account name was adopted: both rows are
\* in the table, in the response's order
C19_Witness ==
    /\ calls # <<>>
    /\ calls[Len(calls)].outcome = "return"
    /\ res = Json("000", <<RowBoth1, RowBoth2>>)
    /\ Get(fs_data, Str(calls[Len(calls)].year)).rows =
          <<[account_nm |-> <<"A">>, thstrm_amount |-> <<"1", "2">>],
            [account_nm |-> <<"A">>, thstrm_amount |-> <<"3">>]>>

----------------------------------------------------------------------------
(* Termination and the number of requests *)

\* every step of the call is taken eventually: requests.get has timeout=10, so a
\* request returns or raises
FairSpec == Spec /\ WF_vars(Next)

RECURSIVE Sum(_, _)
Sum(f, S) == IF S = {} THEN 0
             ELSE LET x == CHOOSE x \in S : TRUE IN f[x] + Sum(f, S \ {x})

\* (scopes in the order) x (candidate report codes), summed over the six years
FetchBound ==
    Sum([y \in Years |-> Len(fs_div_order) * Cardinality(Candidates(y))], Years)

Over == pc \in {"returned", "raised"}

\* every combination of every year has been requested
AllRequested ==
    \A y \in Years : \A k \in 1 .. Len(fs_div_order) : \A c \in Candidates(y) :
        \E i \in 1 .. Len(calls) :
            /\ calls[i].year = y
            /\ calls[i].fs_div = fs_div_order[k]
            /\ calls[i].reprt_code = c

\* C18 as stated, its last part: a call that sent the maximal number of requests
\* got no usable response and adopted nothing.
C18_MaxOnlyWhenAllExhausted ==
    (Over /\ DART_API_KEY # "" /\ corp_code # "" /\ Len(calls) = FetchBound) =>
        \A i \in 1 .. Len(calls) : ~calls[i].usable /\ calls[i].outcome = "continue"

\* C18, amended: the call ends; it never sends more than FetchBound requests;
\* it sends exactly FetchBound when and only when every combination of every
\* year was requested, which is the case when every request was skipped, and
\* also when the requests before a year's last combination were.
C18_TerminatesWithinBound ==
    /\ <>Over
    /\ [](Len(calls) <= FetchBound)
    /\ []((Over /\ DART_API_KEY # "" /\ corp_code # "")
            => ((Len(calls) = FetchBound) <=> AllRequested))
    /\ []((pc = "returned" /\ DART_API_KEY # "" /\ corp_code # ""
            /\ \A i \in 1 .. Len(calls) : calls[i].outcome = "continue")
            => Len(calls) = FetchBound)

\* two scopes, four candidates in each of the six years, every one of the 48
\* requests skipped
C18_Witness ==
    /\ pc = "returned"
    /\ Len(fs_div_order) = 2
    /\ reprt_overrides = <<>>
    /\ Len(calls) = FetchBound
    /\ \A i \in 1 .. Len(calls) : calls[i].outcome = "continue"

----------------------------------------------------------------------------
(* The worked example: last year's annual report and this year's Q3 report *)

\* scope and report code of the requests in log, in order
Combinations(log) == [k \in 1 .. Len(log) |-> <<log[k].fs_div, log[k].reprt_code>>]

\* the only combinations of the last two years for which the source has rows
ExampleRows == {<<current_year - 1, "CFS", "11011">>, <<current_year, "OFS", "11014">>}

\* no override, consolidated first, and so far the source has answered the
\* requests of the last two years as in the example: rows for the two
\* combinations of ExampleRows, nothing to adopt for any other
C14_Example ==
    /\ DART_API_KEY # "" /\ corp_code # ""
    /\ fs_mode = "AUTO_CFS_OFS"
    /\ reprt_overrides = <<>>
    /\ \A i \in 1 .. Len(calls) :
          calls[i].year >= current_year - 1 =>
              IF <<calls[i].year, calls[i].fs_div, calls[i].reprt_code>> \in ExampleRows
              THEN calls[i].usable /\ calls[i].outcome = "return"
              ELSE ~calls[i].usable /\ calls[i].outcome = "continue"

\* the table df carries, of its own or in every row, the scope s and the report
\* code c
RecordsAdoption(df, s, c) ==
    \/ /\ {"fs_div", "reprt_code"} \subseteq DOMAIN df
       /\ df.fs_div = s
       /\ df.reprt_code = c
    \/ /\ {"fs_div", "reprt_code"} \subseteq {df.columns[k] : k \in 1 .. Len(df.columns)}
       /\ \A k \in 1 .. Len(df.rows) : df.rows[k].fs_div = s /\ df.rows[k].reprt_code = c

\* the requests of the example and their tables
C14_ExampleFetches ==
    /\ Combinations(CallsOf(current_year - 1)) = << <<"CFS", "11011">> >>
    /\ Combinations(CallsOf(current_year)) =
          << <<"CFS", "11014">>, <<"CFS", "11013">>, <<"CFS", "11012">>,
             <<"CFS", "11011">>, <<"OFS", "11014">> >>
    /\ Get(fs_data, Str(current_year - 1)).rows # <<>>
    /\ Get(fs_data, Str(current_year)).rows # <<>>

\* C14 as stated: in the example last year is resolved by the one request
\* CFS/11011, this year by the five requests CFS/11014, CFS/11013, CFS/11012,
\* CFS/11011, OFS/11014, and each result records the adopted scope and report
\* code.
C14_ExampleRecordsAdoption ==
    (C14_Example /\ pc = "returned") =>
        /\ C14_ExampleFetches
        /\ RecordsAdoption(Get(fs_data, Str(current_year - 1)), "CFS", "11011")
        /\ RecordsAdoption(Get(fs_data, Str(current_year)), "OFS", "11014")

\* C14, amended: in the example last year is resolved by the one request
\* CFS/11011, this year by the five requests CFS/11014, CFS/11013, CFS/11012,
\* CFS/11011, OFS/11014 in that order; both results are non-empty tables of
\* account_nm and thstrm_amount and of nothing else.
C14_ExampleResolved ==
    (C14_Example /\ pc = "returned") =>
        /\ C14_ExampleFetches
        /\ \A y \in {current_year - 1, current_year} :
              /\ DOMAIN Get(fs_data, Str(y)) = {"columns", "rows"}
              /\ Get(fs_data, Str(y)).columns = keep_cols
              /\ \A k \in 1 .. Len(Get(fs_data, Str(y)).rows) :
                    DOMAIN Get(fs_data, Str(y)).rows[k] = {"account_nm", "thstrm_amount"}

\* the example has run to its end
C14_Witness ==
    /\ C14_Example
    /\ pc = "returned"
    /\ Len(CallsOf(current_year)) = 5
    /\ Len(CallsOf(current_year - 1)) = 1

----------------------------------------------------------------------------
(* One call after another against a source whose answers are settled *)

\* calls of get_financial_statements in one run of the model
MaxCalls == 3

\* the source's answers for open_year, settled for every combination: the
\* combination win answers with, every other one fails with an exception under
\* the scope err and has no data under the other scope
Settled(y, win, with, err) ==
    [k \in {y} \X {"CFS", "OFS"} \X Codes |->
        IF <<k[2], k[3]>> = win THEN with
        ELSE IF k[2] = err THEN RequestException
        ELSE JsonNoList("013")]

InitCalls ==
    /\ DART_API_KEY = "KEY"
    /\ corp_code = "00126380"
    /\ fs_mode = "AUTO_OFS_CFS"
    /\ open_year \in {current_year - 1, current_year}
    /\ uniform \in {JsonNoList("013"), Json("000", <<RowBoth1, RowBoth2>>)}
    /\ fixed \in {Settled(open_year, win, with, err) :
                    win \in {<<"CFS", "11014">>, <<"OFS", "11011">>},
                    with \in {JsonNoList("013"), Json("000", <<RowOther>>),
                              Json("000", <<RowNm>>), Json("000", <<RowBoth3, RowNm>>)},
                    err \in {"CFS", "none"}}
    /\ reprt_overrides \in {<<>>} \cup {[y \in {open_year} |-> "11014"]}
    /\ pc = "start"
    /\ year = current_year - YearsBack
    /\ fs_div_i = 1
    /\ reprt_i = 1
    /\ res = NoResponse
    /\ fs_data = <<>>
    /\ calls = <<>>
    /\ past = <<>>
    /\ session = <<>>
    /\ ui = <<>>
    /\ run = <<>>

\* what a call was given, what the source was, and what the call did
ThisCall ==
    [corp_code |-> corp_code, reprt_overrides |-> reprt_overrides, fs_mode |-> fs_mode,
     uniform |-> uniform, fixed |-> fixed, pc |-> pc, calls |-> calls, fs_data |-> fs_data]

\* a request that failed with an exception finds no data instead, and the reverse
Flip(r) == IF r = RequestException THEN JsonNoList("013")
           ELSE IF r = JsonNoList("013") THEN RequestException
           ELSE r

\* fs_data is a module-level dict: the next call goes on filling the same one
NextCall_KeepsFsData ==
    /\ Over
    /\ Len(past) < MaxCalls - 1
    /\ past' = Append(past, ThisCall)
    /\ pc' = "start"
    /\ res' = NoResponse
    /\ calls' = <<>>
    /\ \/ UNCHANGED <<corp_code, fs_mode, uniform, fixed>>
       \/ /\ uniform' = Flip(uniform)
          /\ fixed' = [k \in DOMAIN fixed |-> Flip(fixed[k])]
          /\ UNCHANGED <<corp_code, fs_mode>>
       \/ /\ fs_mode' = IF fs_mode = "CFS_ONLY" THEN "AUTO_OFS_CFS" ELSE "CFS_ONLY"
          /\ UNCHANGED <<corp_code, uniform, fixed>>
       \/ /\ corp_code' = IF corp_code = "" THEN "00126380" ELSE ""
          /\ UNCHANGED <<fs_mode, uniform, fixed>>
    /\ UNCHANGED <<DART_API_KEY, reprt_overrides, open_year, year, fs_div_i, reprt_i,
                   fs_data, session, ui, run>>

\* the call is over and get_financial_statements is called again (line 415), with
\* the same arguments or with another fs_mode or corp_code, against the same
\* source or against one that fails where the other had no data; the new call has
\* its own locals (fs_data = {} at line 144)
NextCall ==
    /\ Over
    /\ Len(past) < MaxCalls - 1
    /\ past' = Append(past, ThisCall)
    /\ pc' = "start"
    /\ res' = NoResponse
    /\ fs_data' = <<>>
    /\ calls' = <<>>
    /\ \/ UNCHANGED <<corp_code, fs_mode, uniform, fixed>>
       \/ /\ uniform' = Flip(uniform)
          /\ fixed' = [k \in DOMAIN fixed |-> Flip(fixed[k])]
          /\ UNCHANGED <<corp_code, fs_mode>>
       \/ /\ fs_mode' = IF fs_mode = "CFS_ONLY" THEN "AUTO_OFS_CFS" ELSE "CFS_ONLY"
          /\ UNCHANGED <<corp_code, uniform, fixed>>
       \/ /\ corp_code' = IF corp_code = "" THEN "00126380" ELSE ""
          /\ UNCHANGED <<fs_mode, uniform, fixed>>
    /\ UNCHANGED <<DART_API_KEY, reprt_overrides, open_year, year, fs_div_i, reprt_i,
                   session, ui, run>>

NextCalls == Next \/ NextCall

SpecCalls == InitCalls /\ [][NextCalls]_vars

\* the calls that are over, the present one included once it is
Finished == IF Over THEN Append(past, ThisCall) ELSE past

SameArguments(a, b) ==
    /\ a.corp_code = b.corp_code
    /\ a.reprt_overrides = b.reprt_overrides
    /\ a.fs_mode = b.fs_mode

\* the requests of a call: year, scope and report code, in order
Fetches(a) == [k \in 1 .. Len(a.calls) |->
                 <<a.calls[k].year, a.calls[k].fs_div, a.calls[k].reprt_code>>]

\* C11: two calls with the same corp_code, overrides and fs_mode against the
\* same source send the same requests in the same order and end the same way
\* with the same tables, whatever calls came before either.
C11_SameInputsSameResult ==
    \A i, j \in 1 .. Len(Finished) :
        LET a == Finished[i]
            b == Finished[j]
        IN  (SameArguments(a, b) /\ a.uniform = b.uniform /\ a.fixed = b.fixed) =>
                /\ Fetches(a) = Fetches(b)
                /\ a.calls = b.calls
                /\ a.pc = b.pc
                /\ a.fs_data = b.fs_data

\* a call that sent requests and returned, then a call without corp_code, then
\* the first call over again
C11_Witness ==
    /\ Len(past) = 2
    /\ pc = "returned"
    /\ SameArguments(past[1], ThisCall)
    /\ past[1].uniform = uniform /\ past[1].fixed = fixed
    /\ past[2].corp_code = ""
    /\ Len(calls) > 6
    /\ \E k \in 1 .. Len(calls) : calls[k].outcome = "return"

\* the responses differ at most in failing with an exception where the other
\* has no data
SameButFailureKind(r, q) == r = q \/ r = Flip(q)

\* C17: two calls with the same arguments against sources that differ only in
\* answering some combinations with an exception in one and with no data in the
\* other send the same requests in the same order and end the same way with the
\* same tables.
C17_ErrorLikeNoData ==
    \A i, j \in 1 .. Len(Finished) :
        LET a == Finished[i]
            b == Finished[j]
        IN  (/\ SameArguments(a, b)
             /\ SameButFailureKind(a.uniform, b.uniform)
             /\ DOMAIN a.fixed = DOMAIN b.fixed
             /\ \A k \in DOMAIN a.fixed : SameButFailureKind(a.fixed[k], b.fixed[k])) =>
                /\ Fetches(a) = Fetches(b)
                /\ a.pc = b.pc
                /\ a.fs_data = b.fs_data

\* two calls with the same arguments, the first against a source without data
\* for the other years and with a failing scope, the second against the source
\* with the two kinds exchanged; both adopted a response in open_year
C17_Witness ==
    /\ Len(past) = 1
    /\ pc = "returned"
    /\ SameArguments(past[1], ThisCall)
    /\ past[1].uniform = JsonNoList("013")
    /\ uniform = RequestException
    /\ \E k \in DOMAIN fixed : fixed[k] = RequestException /\ past[1].fixed[k] = JsonNoList("013")
    /\ \E k \in DOMAIN fixed : fixed[k] = JsonNoList("013") /\ past[1].fixed[k] = RequestException
    /\ \E k \in 1 .. Len(calls) : calls[k].outcome = "return"
    /\ Len(calls) > 6

----------------------------------------------------------------------------
(* The Streamlit script: main() and load_data_by_button, one action per kind *)
(* of script run.  get_all_krx_symbols (st.cache_data) is taken as loaded;   *)
(* the result of get_financial_statements is a value tagged with the key it  *)
(* was fetched under and the run that fetched it.                            *)

\* script runs in one run of the model
MaxRuns == 3

\* the rows of krx_df: Name and Ticker
KRX == {[Name |-> <<"A">>, Ticker |-> <<"0", "1">>],
        [Name |-> <<"B">>, Ticker |-> <<"0", "2">>]}

\* a name typed into the search box that krx_df does not hold
UnknownName == <<"X">>

\* target_info["Ticker"].iloc[0], or <<>> when target_info is empty
TickerOf(name) ==
    IF \E k \in KRX : k.Name = name
    THEN (CHOOSE k \in KRX : k.Name = name).Ticker
    ELSE <<>>

\* the values of target_name, ticker, sel_year, sel_code and fs_mode a run may see
UI == {[target_name |-> nm, ticker |-> TickerOf(nm), sel_year |-> y, sel_code |-> c,
        fs_mode |-> m] :
          nm \in {k.Name : k \in KRX} \cup {UnknownName},
          y \in {current_year - 1, current_year},
          c \in {"11011", "11014"},
          m \in {"AUTO_CFS_OFS", "CFS_ONLY"}}

\* the widgets' defaults: the last year, its default report code, the first mode
DefaultUi == [target_name |-> <<"A">>, ticker |-> TickerOf(<<"A">>),
              sel_year |-> current_year, sel_code |-> "11014", fs_mode |-> "AUTO_CFS_OFS"]

\* the key without the year
params_key_NoYear(u) ==
    u.target_name \o <<"|">> \o u.ticker \o <<"|">> \o <<u.sel_code>> \o <<"|">>
        \o <<u.fs_mode>>

\* lines 398-399: f"{target_name}|{ticker}|{sel_year}|{sel_code}|{fs_mode}"
params_key(u) ==
    u.target_name \o <<"|">> \o u.ticker \o <<"|">> \o Str(u.sel_year) \o <<"|">>
        \o <<u.sel_code>> \o <<"|">> \o <<u.fs_mode>>

\* nothing was handed to the charts
Nothing == [stock |-> "none", fs |-> "none"]

\* load_data_by_button is called in every run
NeedsLoad_Always(f) == TRUE

\* line 502: fetch or "STOCK_DF" not in st.session_state
NeedsLoad(f) == f \/ "STOCK_DF" \notin DOMAIN session

\* line 405: "DATA_KEY" not in st.session_state or st.session_state.DATA_KEY != key
KeyChanged(u) ==
    IF "DATA_KEY" \notin DOMAIN session THEN TRUE ELSE session.DATA_KEY # params_key(u)

\* ping_dart_key_once at module level: one request per script run when a key is set
Ping == IF DART_API_KEY = "" THEN <<>> ELSE <<"ping_dart_key_once">>

\* get_corp_code sends its request only when a key is set (line 112)
CorpCodeLookup == IF DART_API_KEY = "" THEN <<>> ELSE <<"get_corp_code">>

\* st.session_state.get("STOCK_DF", pd.DataFrame()), st.session_state.get("FS_DATA", {})
FromSession(sess) ==
    [stock |-> IF "STOCK_DF" \in DOMAIN sess THEN sess.STOCK_DF ELSE "empty",
     fs    |-> IF "FS_DATA" \in DOMAIN sess THEN sess.FS_DATA ELSE "empty"]

\* lines 419-421
Stored(u, fs) ==
    [k \in {"DATA_KEY", "STOCK_DF", "FS_DATA"} |->
        IF k = "DATA_KEY" THEN params_key(u)
        ELSE IF k = "STOCK_DF" THEN [ticker |-> u.ticker, at |-> run.n + 1]
        ELSE [kind |-> fs, of |-> params_key(u), at |-> run.n + 1]]

InitApp ==
    /\ DART_API_KEY \in {"", "KEY"}
    /\ corp_code = ""
    /\ fs_mode = "AUTO_CFS_OFS"
    /\ open_year = current_year
    /\ uniform = JsonNoList("013")
    /\ fixed = <<>>
    /\ reprt_overrides = <<>>
    /\ pc = "start"
    /\ year = current_year - YearsBack
    /\ fs_div_i = 1
    /\ reprt_i = 1
    /\ res = NoResponse
    /\ fs_data = <<>>
    /\ calls = <<>>
    /\ past = <<>>
    /\ session = <<>>
    /\ ui = DefaultUi
    /\ run = [n |-> 0, fetch |-> FALSE, before |-> <<>>, api |-> <<>>, load |-> "none",
              shown |-> Nothing]

\* the script runs again with the widget values u; f is the value of the button.
\* The first run sees the defaults; a click reruns the script with the values of
\* the run that drew the button.
Rerun(u, f, api, load, shown) ==
    /\ run.n < MaxRuns
    /\ u \in UI
    /\ run.n = 0 => (u = ui /\ ~f)
    /\ f => (u = ui /\ u.ticker # <<>>)
    /\ ui' = u
    /\ run' = [n |-> run.n + 1, fetch |-> f, before |-> session, api |-> Ping \o api,
               load |-> load, shown |-> shown]
    /\ UNCHANGED <<inputs, pc, year, fs_div_i, reprt_i, res, fs_data, calls, past>>

\* lines 452-455: target_info is empty, main returns before the button is drawn
RunUnknownCompany ==
    \E u \in UI :
        /\ u.ticker = <<>>
        /\ Rerun(u, FALSE, <<>>, "none", Nothing)
        /\ session' = session

\* lines 505-506: no click and STOCK_DF in the session
RunFromSession ==
    \E u \in UI, f \in BOOLEAN :
        /\ u.ticker # <<>>
        /\ ~NeedsLoad(f)
        /\ Rerun(u, f, <<>>, "none", FromSession(session))
        /\ session' = session

\* line 503, and line 405 false: the key is the stored one
LoadStored ==
    \E u \in UI, f \in BOOLEAN :
        /\ u.ticker # <<>>
        /\ NeedsLoad(f)
        /\ ~KeyChanged(u)
        /\ Rerun(u, f, <<>>, "stored", FromSession(session))
        /\ session' = session

\* lines 406-410 and 417-421: get_corp_code found nothing
LoadNoCorpCode ==
    \E u \in UI, f \in BOOLEAN :
        /\ u.ticker # <<>>
        /\ NeedsLoad(f)
        /\ KeyChanged(u)
        /\ session' = Stored(u, "placeholder")
        /\ Rerun(u, f, CorpCodeLookup \o <<"get_stock_data">>, "fetched",
                 FromSession(session'))

\* lines 406, 411-421: get_financial_statements returned
LoadStatements ==
    \E u \in UI, f \in BOOLEAN :
        /\ u.ticker # <<>>
        /\ NeedsLoad(f)
        /\ KeyChanged(u)
        /\ DART_API_KEY # ""
        /\ session' = Stored(u, "statements")
        /\ Rerun(u, f, <<"get_corp_code", "get_financial_statements", "get_stock_data">>,
                 "fetched", FromSession(session'))

\* DATA_KEY is assigned before the lookups: when get_financial_statements raises,
\* the new key stays in the session beside the old tables (or beside none)
LoadRaises_KeyStoredFirst ==
    \E u \in UI, f \in BOOLEAN :
        /\ u.ticker # <<>>
        /\ NeedsLoad(f)
        /\ KeyChanged(u)
        /\ DART_API_KEY # ""
        /\ session' = [k \in DOMAIN session \cup {"DATA_KEY"} |->
                          IF k = "DATA_KEY" THEN params_key(u) ELSE session[k]]
        /\ Rerun(u, f, <<"get_corp_code", "get_financial_statements">>, "raised", Nothing)

\* lines 406, 411-416: get_financial_statements raised (KeyError at lines 196-197);
\* the script run ends there and the session is as it was
LoadRaises ==
    \E u \in UI, f \in BOOLEAN :
        /\ u.ticker # <<>>
        /\ NeedsLoad(f)
        /\ KeyChanged(u)
        /\ DART_API_KEY # ""
        /\ session' = session
        /\ Rerun(u, f, <<"get_corp_code", "get_financial_statements">>, "raised", Nothing)

NextApp ==
    \/ RunUnknownCompany
    \/ RunFromSession
    \/ LoadStored
    \/ LoadNoCorpCode
    \/ LoadStatements
    \/ LoadRaises

SpecApp == InitApp /\ [][NextApp]_vars

\* the lookups of a run other than the key probe
DataLookups(api) == SelectSeq(api, LAMBDA a : a # "ping_dart_key_once")

C20_FetchIffKeyDiffers ==
    run.load # "none" =>
        LET differs == \/ "DATA_KEY" \notin DOMAIN run.before
                       \/ \E u \in UI : u # ui /\ params_key(u) = run.before.DATA_KEY
        IN  /\ (run.load \in {"fetched", "raised"}) <=> differs
            /\ (run.load \in {"fetched", "raised"}) <=> (DataLookups(run.api) # <<>>)
            /\ ~differs =>
                  /\ run.shown = FromSession(run.before)
                  /\ session = run.before

\* a click with the stored key while the stored FS_DATA is the placeholder:
\* nothing is fetched
C20_Witness ==
    /\ run.fetch
    /\ run.load = "stored"
    /\ run.before.FS_DATA.kind = "placeholder"
    /\ run.shown.fs.kind = "placeholder"
    /\ DataLookups(run.api) = <<>>

----------------------------------------------------------------------------
(* The three session entries *)

SessionKeys == {"DATA_KEY", "STOCK_DF", "FS_DATA"}

\* C21: DATA_KEY, STOCK_DF and FS_DATA are in the session all three or none;
\* when they are, STOCK_DF and FS_DATA are the tables one and the same load
\* fetched for the values DATA_KEY is the key of; and a run whose load raised
\* left the session as it found it.
C21_SessionConsistent ==
    /\ DOMAIN session \in {{}, SessionKeys}
    /\ DOMAIN session = SessionKeys =>
          /\ \E u \in UI :
                /\ params_key(u) = session.DATA_KEY
                /\ session.STOCK_DF.ticker = u.ticker
          /\ session.FS_DATA.of = session.DATA_KEY
          /\ session.FS_DATA.at = session.STOCK_DF.at
    /\ run.load = "raised" => session = run.before

\* the session held the tables of one key, a load for other values raised, and
\* the session still holds the three entries of the old key
C21_Witness ==
    /\ run.load = "raised"
    /\ DOMAIN run.before = SessionKeys
    /\ session = run.before
    /\ session.DATA_KEY # params_key(ui)
    /\ session.FS_DATA.of = session.DATA_KEY

----------------------------------------------------------------------------
(* Empty tables and adopted tables *)

\* a request of year y ended with `return df`
AdoptedIn(y) == \E i \in 1 .. Len(calls) : calls[i].year = y /\ calls[i].outcome = "return"

\* C22: the table stored under a year has no rows exactly when no request of
\* that year was adopted; an adopted table has at least one row.
C22_EmptyIffNotAdopted ==
    \A y \in Years :
        HasKey(fs_data, Str(y)) =>
            ((Get(fs_data, Str(y)).rows = <<>>) <=> ~AdoptedIn(y))

\* the call returned with a year left empty after requests and another year
\* adopted from a response none of whose rows carries both fields
C22_Witness ==
    /\ pc = "returned"
    /\ \E y \in Years :
          /\ CallsOf(y) # <<>>
          /\ ~AdoptedIn(y)
          /\ Get(fs_data, Str(y)).rows = <<>>
    /\ AdoptedIn(open_year)
    /\ Len(Get(fs_data, Str(open_year)).rows) = 2
    /\ Get(fs_data, Str(open_year)).rows[1].thstrm_amount = NaN

----------------------------------------------------------------------------
(* The chart data of the financial statements (main, lines 521-548) *)

\* the characters of the model in code point order
CodePoints == <<" ", ",", "-", "0", "1", "2", "3", "4", "5", "6", "7", "8", "9",
                "A", "B", "a", "n">>

Ord(c) == CHOOSE i \in 1 .. Len(CodePoints) : CodePoints[i] = c

RECURSIVE TextLess(_, _)
\* s < t on Python strings
TextLess(s, t) ==
    IF t = <<>> THEN FALSE
    ELSE IF s = <<>> THEN TRUE
    ELSE IF Head(s) = Head(t) THEN TextLess(Tail(s), Tail(t))
    ELSE Ord(Head(s)) < Ord(Head(t))

RECURSIVE Listed(_)
\* the members of a finite set, in some order
Listed(S) == IF S = {} THEN <<>>
             ELSE LET x == CHOOSE x \in S : TRUE IN <<x>> \o Listed(S \ {x})

\* sorted(S) for a set of strings
Sorted(S) == SortSeq(Listed(S), TextLess)

IsDigit(c) == \E i \in 1 .. 10 : DigitChars[i] = c

RECURSIVE ParseInt(_)
\* int of a text of digits
ParseInt(s) == IF s = <<>> THEN 0
          ELSE 10 * ParseInt(SubSeq(s, 1, Len(s) - 1))
                  + ((CHOOSE i \in 1 .. 10 : DigitChars[i] = s[Len(s)]) - 1)

\* None, as to_trillion returns it
None == [none |-> TRUE, hundredths |-> 0]

\* a float with two decimals, held as its number of hundredths
Float(h) == [none |-> FALSE, hundredths |-> h]

\* digits of the amount below 0.01 trillion won
TenDigits == 10

\* round(float(s) / 1_0000_0000_0000, 2) for a text s of digits, in hundredths of
\* a trillion: the digits above the last ten, one more when the last ten are
\* beyond the half (at the half, to the even neighbour)
RoundToHundredths(s) ==
    LET cut  == IF Len(s) > TenDigits THEN Len(s) - TenDigits ELSE 0
        high == ParseInt(SubSeq(s, 1, cut))
        low  == SubSeq(s, cut + 1, Len(s))
        half == <<"5", "0", "0", "0", "0", "0", "0", "0", "0", "0">>
    IN  IF Len(low) < TenDigits \/ TextLess(low, half) THEN high
        ELSE IF low = half THEN (IF high % 2 = 0 THEN high ELSE high + 1)
        ELSE high + 1


\* lines 534-541.  Of the texts float() accepts the model has the texts of digits.
to_trillion(x) ==
    LET s == Strip(RemoveCommas(x))
    IN  IF s = <<>> \/ s = NaN THEN None
        ELSE IF \A k \in 1 .. Len(s) : IsDigit(s[k]) THEN Float(RoundToHundredths(s))
        ELSE None

RowBig1  == [account_nm |-> <<"A">>,
             thstrm_amount |-> <<"2", "0", ",", "0", "0", "0", ",", "0", "0", "0", ",", "0", "0", "0">>]
RowBig2  == [account_nm |-> <<"A">>,
             thstrm_amount |-> <<"3", "6", "0", "0", "0", "0", "0", "0", "0", "0", "0">>]
RowDash  == [account_nm |-> <<"B">>, thstrm_amount |-> <<"-">>]
RowBlank == [account_nm |-> <<" ">>, thstrm_amount |-> <<"1">>]

\* answers with amounts of the size of 0.01 trillion won and more
ChartResponses == {JsonNoList("013"), Json("000", <<RowBig1, RowBig2, RowDash, RowBlank>>)}

InitCharts ==
    /\ DART_API_KEY \in {"", "KEY"}
    /\ corp_code = "00126380"
    /\ fs_mode = "CFS_ONLY"
    /\ open_year \in Years
    /\ uniform \in ChartResponses
    /\ fixed = <<>>
    /\ reprt_overrides = <<>>
    /\ pc = "start"
    /\ year = current_year - YearsBack
    /\ fs_div_i = 1
    /\ reprt_i = 1
    /\ res = NoResponse
    /\ fs_data = <<>>
    /\ calls = <<>>
    /\ past = <<>>
    /\ session = <<>>
    /\ ui = <<>>
    /\ run = <<>>

\* lines 522-523: the tables that are not empty and have both columns
valid_fs(d) ==
    SelectSeq(d, LAMBDA e :
        /\ e.df.rows # <<>>
        /\ {"account_nm", "thstrm_amount"} \subseteq
              {e.df.columns[k] : k \in 1 .. Len(e.df.columns)})

\* lines 528-531: the stripped, non-empty account names of the valid tables
metrics(d) ==
    UNION {{Strip(valid_fs(d)[i].df.rows[k].account_nm) :
                k \in 1 .. Len(valid_fs(d)[i].df.rows)} : i \in 1 .. Len(valid_fs(d))}
        \ {<<>>}

\* line 543
years_sorted(d) == Sorted({valid_fs(d)[i].key : i \in 1 .. Len(valid_fs(d))})

\* ser.iloc[-1]: the last row of the metric
ChartValue_LastRow(df, metric) ==
    LET ser == SelectSeq(df.rows, LAMBDA row : row.account_nm = metric)
    IN  IF Len(ser) > 0 THEN to_trillion(ser[Len(ser)].thstrm_amount) ELSE None

\* lines 547-548: to_trillion(ser.iloc[0]) if len(ser) else None
ChartValue(df, metric) ==
    LET ser == SelectSeq(df.rows, LAMBDA row : row.account_nm = metric)
    IN  IF Len(ser) > 0 THEN to_trillion(ser[1].thstrm_amount) ELSE None

\* lines 544-548: a dict of dicts, each in insertion order
fs_chart_data(d) ==
    LET ms == Sorted(metrics(d))
        ys == years_sorted(d)
    IN  [i \in 1 .. Len(ms) |->
            [key |-> ms[i],
             val |-> [j \in 1 .. Len(ys) |->
                        [key |-> ys[j], val |-> ChartValue(Get(d, ys[j]), ms[i])]]]]

\* main goes on from the returned fs_data to the chart data
BuildCharts ==
    /\ pc = "returned"
    /\ run = <<>>
    /\ run' = [fs_all_metrics |-> Sorted(metrics(fs_data)),
               fs_chart_data  |-> fs_chart_data(fs_data)]
    /\ UNCHANGED <<inputs, pc, year, fs_div_i, reprt_i, res, fs_data, calls, past, session, ui>>

NextCharts == Next \/ BuildCharts

SpecCharts == InitCharts /\ [][NextCharts]_vars

\* the keys of the years whose table has rows
NonEmptyYears ==
    {Str(y) : y \in {z \in Years : HasKey(fs_data, Str(z)) /\ Get(fs_data, Str(z)).rows # <<>>}}

\* C23: in the chart data every metric has an entry for each year whose table
\* has rows and for no other key, the years ascending; the entry is None when no
\* row of the year has the metric's name, and otherwise the converted amount of
\* the first such row.
C23_ChartDataYears ==
    "fs_chart_data" \in DOMAIN run =>
        \A i \in 1 .. Len(run.fs_chart_data) :
            LET m  == run.fs_chart_data[i].key
                of == run.fs_chart_data[i].val
            IN  /\ {of[j].key : j \in 1 .. Len(of)} = NonEmptyYears
                /\ Len(of) = Cardinality(NonEmptyYears)
                /\ \A j \in 1 .. (Len(of) - 1) : TextLess(of[j].key, of[j + 1].key)
                /\ \A j \in 1 .. Len(of) :
                      LET rows == Get(fs_data, of[j].key).rows
                          has  == {k \in 1 .. Len(rows) : rows[k].account_nm = m}
                      IN  IF has = {} THEN of[j].val = None
                          ELSE of[j].val = to_trillion(
                                   rows[CHOOSE k \in has : \A h \in has : k <= h].thstrm_amount)

\* chart data of two metrics over several years: A, twice in the rows of the
\* years before open_year, has the 0.02 of its first row there; B, absent from
\* the rows of open_year, has None there
C23_Witness ==
    /\ "fs_chart_data" \in DOMAIN run
    /\ Len(run.fs_chart_data) = 2
    /\ run.fs_chart_data[1].key = <<"A">>
    /\ run.fs_chart_data[2].key = <<"B">>
    /\ Len(run.fs_chart_data[1].val) = Cardinality(Years)
    /\ open_year = current_year
    /\ run.fs_chart_data[1].val[1] = [key |-> Str(current_year - YearsBack), val |-> Float(2)]
    /\ run.fs_chart_data[2].val[Cardinality(Years)] = [key |-> Str(current_year), val |-> None]
    /\ res = Json("000", <<RowBoth1, RowBoth2>>)

----------------------------------------------------------------------------
(* get_financial_statements of stock_analyzer.py (the command-line variant), *)
(* run after the call of the Streamlit variant against the same source       *)

\* the source answers the two annual requests of open_year with any two
\* responses and those of every other year with uniform; the Streamlit variant
\* is called with AUTO_CFS_OFS and every year overridden to 11011
InitCli ==
    /\ DART_API_KEY \in {"", "KEY"}
    /\ corp_code = "00126380"
    /\ fs_mode = "AUTO_CFS_OFS"
    /\ open_year \in Years
    /\ uniform \in UniformResponses
    /\ fixed \in {[k \in {open_year} \X {"CFS", "OFS"} \X {"11011"} |->
                      IF k[2] = "CFS" THEN a ELSE b] : a, b \in Responses}
    /\ reprt_overrides = [y \in Years |-> "11011"]
    /\ pc = "start"
    /\ year = current_year - YearsBack
    /\ fs_div_i = 1
    /\ reprt_i = 1
    /\ res = NoResponse
    /\ fs_data = <<>>
    /\ calls = <<>>
    /\ past = <<>>
    /\ session = <<>>
    /\ ui = <<>>
    /\ run = <<>>

\* OFS before CFS
cli_fs_divs_SeparateFirst == <<"OFS", "CFS">>

\* stock_analyzer.py line 98: for fs_div in ["CFS", "OFS"]
cli_fs_divs == <<"CFS", "OFS">>

\* stock_analyzer.py line 103
cli_reprt_code == "11011"

\* the call of the Streamlit variant is over; the command-line variant is called
\* with the same corp_code (stock_analyzer.py lines 87-88)
CliCall ==
    /\ Over
    /\ past = <<>>
    /\ past' = <<ThisCall>>
    /\ pc' = "cli_start"
    /\ res' = NoResponse
    /\ fs_data' = <<>>
    /\ calls' = <<>>
    /\ UNCHANGED <<inputs, year, fs_div_i, reprt_i, session, ui, run>>

\* stock_analyzer.py lines 89-91
CliReturnNoCredentials ==
    /\ pc = "cli_start"
    /\ MissingCredentials
    /\ fs_data' = DictSet(fs_data, MessageKey, MessageFrame)
    /\ pc' = "cli_returned"
    /\ UNCHANGED <<inputs, outside, year, fs_div_i, reprt_i, res, calls>>

\* stock_analyzer.py lines 93-97
CliBegin ==
    /\ pc = "cli_start"
    /\ ~MissingCredentials
    /\ pc' = "cli_running"
    /\ year' = current_year - YearsBack
    /\ fs_div_i' = 1
    /\ UNCHANGED <<inputs, outside, reprt_i, res, fs_data, calls>>

\* stock_analyzer.py lines 96, 121-126: the year is over with df; the next year
\* or the return
CliYearDone(df) ==
    /\ fs_data' = DictSet(fs_data, Str(year), df)
    /\ fs_div_i' = 1
    /\ IF year < current_year
       THEN year' = year + 1 /\ pc' = pc
       ELSE year' = year /\ pc' = "cli_returned"

\* stock_analyzer.py lines 98, 123-124: the next fs_div, or the empty frame once
\* found_data stayed False
CliNextScope ==
    IF fs_div_i < Len(cli_fs_divs)
    THEN fs_div_i' = fs_div_i + 1 /\ UNCHANGED <<year, pc, fs_data>>
    ELSE CliYearDone(EmptyFrame)

\* stock_analyzer.py lines 99-111: one request, answered by r
CliRequest(r, did) ==
    /\ pc = "cli_running"
    /\ r \in Source(year, cli_fs_divs[fs_div_i], cli_reprt_code)
    /\ res' = r
    /\ calls' = Append(calls, [year       |-> year,
                               fs_div     |-> cli_fs_divs[fs_div_i],
                               reprt_code |-> cli_reprt_code,
                               usable     |-> Usable(r),
                               outcome    |-> did])
    /\ UNCHANGED <<inputs, outside, reprt_i>>

\* stock_analyzer.py line 116: status "000" and a "list" key
CliAccepted(r) == r.status = "000" /\ r.islist

\* stock_analyzer.py lines 117-119: the columns of keep_cols the list has, the
\* cells as they came
CliFrame(list) ==
    [columns |-> cols(list),
     rows    |-> [k \in 1 .. Len(list) |->
                    [c \in DOMAIN list[k] \cap {"account_nm", "thstrm_amount"} |-> list[k][c]]]]

\* stock_analyzer.py lines 112-114
CliRequestFailed ==
    \E r \in Answers :
        /\ r.exc
        /\ CliRequest(r, "continue")
        /\ CliNextScope

\* stock_analyzer.py line 116 false
CliNotAccepted ==
    \E r \in Answers :
        /\ ~r.exc
        /\ ~CliAccepted(r)
        /\ CliRequest(r, "continue")
        /\ CliNextScope

\* stock_analyzer.py lines 116-122
CliAdopt ==
    \E r \in Answers :
        /\ ~r.exc
        /\ CliAccepted(r)
        /\ CliRequest(r, "return")
        /\ CliYearDone(CliFrame(r.list))

NextCli ==
    \/ Next
    \/ CliCall
    \/ CliReturnNoCredentials
    \/ CliBegin
    \/ CliRequestFailed
    \/ CliNotAccepted
    \/ CliAdopt

SpecCli == InitCli /\ [][NextCli]_vars

\* every answer of the source with status "000" has a list that is not empty and
\* carries both fields
GoodSource ==
    \A r \in {uniform} \cup {fixed[k] : k \in DOMAIN fixed} :
        (~r.exc /\ r.status = "000") =>
            (r.islist /\ Len(r.list) > 0 /\ cols(r.list) = keep_cols)

\* the requests of year y in a call log
OfYear(log, y) == SelectSeq(log, LAMBDA e : e.year = y)

\* scope, report code and what followed, request by request
Steps(log) == [k \in 1 .. Len(log) |-> <<log[k].fs_div, log[k].reprt_code, log[k].outcome>>]

\* C24: against a source whose answers with status "000" are non-empty and carry
\* both fields, the Streamlit variant (AUTO_CFS_OFS, every year overridden to
\* 11011) and the command-line variant both return, and for every year they
\* send the same requests - CFS/11011, then OFS/11011 only after CFS/11011 was
\* not adopted - adopt at the same request or not at all, and store a table
\* with rows in the one exactly when the other does.
C24_CliLikeStreamlit ==
    (pc = "cli_returned" /\ GoodSource) =>
        /\ past[1].pc = "returned"
        /\ \A y \in Years :
              LET st  == OfYear(past[1].calls, y)
                  cli == OfYear(calls, y)
              IN  /\ Steps(st) = Steps(cli)
                  /\ (DART_API_KEY # "" /\ corp_code # "") =>
                        /\ Steps(cli) \in
                              {<< <<"CFS", "11011", "return">> >>,
                               << <<"CFS", "11011", "continue">>, <<"OFS", "11011", "return">> >>,
                               << <<"CFS", "11011", "continue">>, <<"OFS", "11011", "continue">> >>}
                        /\ (Get(past[1].fs_data, Str(y)).rows = <<>>)
                              <=> (Get(fs_data, Str(y)).rows = <<>>)
                        /\ (Get(fs_data, Str(y)).rows = <<>>)
                              <=> (cli[Len(cli)].outcome = "continue")

\* both variants ran against a good source that fails for CFS and has rows for
\* OFS in open_year and fails for every other year: both adopted OFS/11011 in
\* open_year and left the other years empty
C24_Witness ==
    /\ pc = "cli_returned"
    /\ GoodSource
    /\ uniform = RequestException
    /\ fixed[<<open_year, "CFS", "11011">>] = JsonNoList("013")
    /\ fixed[<<open_year, "OFS", "11011">>] = Json("000", <<RowBoth1, RowBoth2>>)
    /\ Steps(OfYear(calls, open_year)) =
          << <<"CFS", "11011", "continue">>, <<"OFS", "11011", "return">> >>
    /\ Steps(OfYear(past[1].calls, open_year)) = Steps(OfYear(calls, open_year))
    /\ Len(calls) = 2 * YearsBack + 2

====
